---------------------------- MODULE Spec2Model ----------------------------
(***************************************************************************)
(* Model of the ScarperText ingestion pipeline: the retry helper of the    *)
(* rewrite client, the single-article and batch endpoints, and the feed    *)
(* pollers, over one shared document store.  The repository holds several  *)
(* variants of the same server; each variant is modelled from its own      *)
(* source and selected by the variable "variant".                          *)
(***************************************************************************)
EXTENDS Integers, Sequences, FiniteSets, TLC

VARIABLES
    variant,    \* which program of the repository is running
    rt,         \* retryOpenAIRequest: the state of one call of the helper
    store,      \* the "articles" collection: a set of documents
    req,        \* POST /process-article: the request being handled
    nreq,       \* number of requests received so far
    bat,        \* POST /process-articles: the request being handled
    runs,       \* the poll runs (runJob / the cron callback), one per trigger
    proc        \* the node process: its environment and how far it has started

artVars == <<req, nreq>>
vars == <<variant, rt, store, artVars, bat, runs, proc>>

(***************************************************************************)
(* Bounds of the model and constants of the program.                       *)
(***************************************************************************)
MaxRetries == 4          \* largest value of the "retries" parameter tried
MaxRequests == 2         \* requests sent to an endpoint in one behaviour
MaxUrls == 2             \* longest urls array of a batch request
MaxItems == 2            \* entries of one feed
MaxListLen == 4          \* length of the lists given to createBatches alone
MaxSplitSize == 3        \* batch sizes given to createBatches alone

DefaultRetries == 3      \* retries = 3
DefaultDelay == 1000     \* delay = 1000
CallerDelay == 1500      \* retryOpenAIRequest(requestFn, 3, 1500)
RateLimited == 429       \* err.response?.status === 429
DefaultBatchSize == 5    \* const { urls, batchSize = 5 } = req.body
FixedBatchSize == 10     \* createBatches(unprocessed, 10)
EntryCap == 5            \* items.slice(0, 5)

BatchSizes == {-1, 0, 1, 2, DefaultBatchSize}

(***************************************************************************)
(* The start of the process: the top-level statements of the server file   *)
(* before app.listen.  The environment either has a key or lacks it.       *)
(***************************************************************************)
\* A process that has started with everything it needs.
Listening == [pc |-> "listening", firebaseKey |-> TRUE, openaiKey |-> TRUE]

\* How the top-level statements end.  server.js (third program), part_002,
\* part_004 and part_005 test FIREBASE_SERVICE_ACCOUNT_KEY and exit;
\* part_001, part_003 and the first program of server.js give it to
\* JSON.parse, which throws on undefined.  OPENAI_API_KEY is only read.
StartupEnd(v, env) ==
    IF ~env.firebaseKey
    THEN IF v \in {"article", "batch2", "batch5"} THEN "exited" ELSE "crashed"
    ELSE "listening"

(***************************************************************************)
(* retryOpenAIRequest(requestFn, retries = 3, delay = 1000)                *)
(* The outcome of one requestFn() call is "ok" (the promise resolves with  *)
(* the content) or an error: an HTTP error with a status, or a network     *)
(* error without response.                                                 *)
(***************************************************************************)
RequestOutcomes == {"ok", "e429", "e500", "enet"}

\* err.response?.status
ErrStatus(resp) ==
    CASE resp = "e429" -> RateLimited
      [] resp = "e500" -> 500
      [] OTHER -> 0

\* The state of a fresh call: let i = 0, nothing attempted yet.
RetryStart(retries, delay) ==
    [pc |-> "test", i |-> 0, retries |-> retries, delay |-> delay,
     attempts |-> 0, waits |-> <<>>, resps |-> <<>>, err |-> "none"]

\* for (...; i < retries; ...): enter the body, or leave the loop and fall
\* off the end of the function (which resolves with undefined).
RetryTest(st) ==
    IF st.i < st.retries THEN [st EXCEPT !.pc = "call"]
    ELSE [st EXCEPT !.pc = "fellthrough"]

\* Mutants of the catch clause: the off-by-one of the final attempt, and a
\* retry of every error.
RetryAttemptWaitsOnLast(st, resp) ==
    LET st1 == [st EXCEPT !.attempts = @ + 1, !.resps = Append(@, resp)]
    IN  IF resp = "ok" THEN [st1 EXCEPT !.pc = "returned"]
        ELSE IF ErrStatus(resp) = RateLimited /\ st.i < st.retries
             THEN [st1 EXCEPT !.pc = "wait"]
             ELSE [st1 EXCEPT !.pc = "thrown", !.err = resp]

RetryAttemptAnyError(st, resp) ==
    LET st1 == [st EXCEPT !.attempts = @ + 1, !.resps = Append(@, resp)]
    IN  IF resp = "ok" THEN [st1 EXCEPT !.pc = "returned"]
        ELSE IF st.i < st.retries - 1
             THEN [st1 EXCEPT !.pc = "wait"]
             ELSE [st1 EXCEPT !.pc = "thrown", !.err = resp]

\* try { return await requestFn(); } catch (err) { ... }: one attempt and the
\* decision of the catch clause.
RetryAttempt(st, resp) ==
    LET st1 == [st EXCEPT !.attempts = @ + 1, !.resps = Append(@, resp)]
    IN  IF resp = "ok" THEN [st1 EXCEPT !.pc = "returned"]
        ELSE IF ErrStatus(resp) = RateLimited /\ st.i < st.retries - 1
             THEN [st1 EXCEPT !.pc = "wait"]
             ELSE [st1 EXCEPT !.pc = "thrown", !.err = resp]

\* Mutant of the backoff: the delay is not doubled.
RetryBackoffConstant(st) ==
    [st EXCEPT !.waits = Append(@, st.delay), !.i = @ + 1, !.pc = "test"]

\* await setTimeout(delay); delay *= 2; then i++ of the for statement.
RetryBackoff(st) ==
    [st EXCEPT !.waits = Append(@, st.delay), !.delay = @ * 2,
               !.i = @ + 1, !.pc = "test"]

\* No call of the helper is in progress.
RetryIdle == [pc |-> "idle", i |-> 0, retries |-> 0, delay |-> 0,
              attempts |-> 0, waits |-> <<>>, resps |-> <<>>, err |-> "none"]

RetryFinished(st) == st.pc \in {"returned", "thrown", "fellthrough"}

(***************************************************************************)
(* JavaScript values.  Texts are strings; Undef and Null stand for         *)
(* undefined and null.  Falsy/Or model the truthiness test of a || b.      *)
(***************************************************************************)
Undef == "<undefined>"
Null == "<null>"

Falsy(v) == v \in {"", Undef, Null}

Or(a, b) == IF Falsy(a) THEN b ELSE a

(***************************************************************************)
(* The document store.  A document is [id, data]; db.collection("articles")*)
(* is the set of them, with at most one document per id.                   *)
(***************************************************************************)
Urls == {"u1", "u2"}

\* Buffer.from(url).toString("base64"): an injective encoding of the url.
Base64(url) == [scheme |-> "base64", of |-> url, n |-> 0]

NoDoc == [id |-> [scheme |-> "none", of |-> "", n |-> 0],
          data |-> [url |-> Undef, title |-> Undef, description |-> Undef]]

DocsAt(db, id) == {d \in db : d.id = id}

\* doc(id).get(): the snapshot of the document, NoDoc when it does not exist.
DocGet(db, id) == IF DocsAt(db, id) = {} THEN NoDoc ELSE CHOOSE d \in DocsAt(db, id) : TRUE

\* Firestore refuses a document holding an undefined field value.
ValidData(data) == \A f \in DOMAIN data : data[f] # Undef

\* doc(id).set(data): replaces the whole document.
DocSet(db, id, data) == (db \ DocsAt(db, id)) \cup {[id |-> id, data |-> data]}

DocsOfUrl(db, url) == {d \in db : d.data.url = url}

\* A complete record: its description is present and non-empty.
IsComplete(d) == d # NoDoc /\ ~Falsy(d.data.description)

(***************************************************************************)
(* The chat-completion content that the rewrite service answers with: text *)
(* that is not JSON, a JSON object (with or without its two keys, or with *)
(* an empty text under one of them), JSON null, or another JSON value      *)
(* without properties.                                                     *)
(***************************************************************************)
Contents ==
    { [kind |-> "text",   title |-> Undef, description |-> Undef],
      [kind |-> "object", title |-> "T1",  description |-> "D1"],
      [kind |-> "object", title |-> "T2",  description |-> "D2"],
      [kind |-> "object", title |-> Undef, description |-> "D1"],
      [kind |-> "object", title |-> "T1",  description |-> ""],
      [kind |-> "object", title |-> "",    description |-> "D1"],
      [kind |-> "null",   title |-> Undef, description |-> Undef],
      [kind |-> "scalar", title |-> Undef, description |-> Undef] }

NoContent == [kind |-> "none", title |-> Undef, description |-> Undef]

\* JSON.parse(content) throws exactly on text that is not JSON.
JsonParseThrows(content) == content.kind = "text"

(***************************************************************************)
(* scrapeArticle(url): the page text, or null on an error or an empty page.*)
(***************************************************************************)
PageFetches == {"neterr", "", "S1"}

ScrapeArticle(fetch) == IF fetch = "neterr" THEN Null ELSE Or(fetch, Null)

(***************************************************************************)
(* cleanTitleAndDescription: the value returned for the outcome of the     *)
(* retry helper (st) and the content it returned.                          *)
(***************************************************************************)
\* server.js: cleanTitleAndDescription(title, description, scrapedText)
CleanFallback(title, description, scrapedText) ==
    [kind |-> "object",
     title |-> Or(title, "Untitled News"),
     description |-> Or(scrapedText, Or(description, ""))]

CleanResult(st, content, title, description, scrapedText) ==
    IF st.pc = "thrown" THEN CleanFallback(title, description, scrapedText)
    ELSE IF st.pc = "fellthrough" THEN CleanFallback(title, description, scrapedText)
    ELSE IF JsonParseThrows(content) THEN CleanFallback(title, description, scrapedText)
    ELSE content

(***************************************************************************)
(* POST /process-article (server.js): scrape, rewrite, store, respond.     *)
(* Requests are handled one after the other.                               *)
(***************************************************************************)
ReqIdle ==
    [pc |-> "idle", url |-> Undef, title |-> Undef, description |-> Undef,
     scraped |-> Undef, content |-> NoContent, cleaned |-> NoContent,
     status |-> 0, before |-> NoDoc,
     extractCalls |-> 0, rewriteCalls |-> 0, writes |-> 0]

\* const articleDoc = { url, title: cleaned.title, ... }
ArticleDoc(r) ==
    [url |-> r.url, title |-> r.cleaned.title,
     description |-> r.cleaned.description,
     scrapedText |-> Or(r.scraped, "")]

\* if (!url) return res.status(400)...; otherwise the handler starts.
ArticleReceive ==
    /\ variant = "article"
    /\ proc.pc = "listening"
    /\ req.pc \in {"idle", "responded"}
    /\ nreq < MaxRequests
    /\ nreq' = nreq + 1
    /\ \E url \in Urls \cup {Undef}, title \in {Undef, "T0"},
          description \in {Undef, "D0"} :
          req' = IF Falsy(url)
                 THEN [ReqIdle EXCEPT !.pc = "responded", !.status = 400]
                 ELSE [ReqIdle EXCEPT !.pc = "scrape", !.url = url,
                                      !.title = title,
                                      !.description = description,
                                      !.before = DocGet(store, Base64(url))]
    /\ rt' = RetryIdle
    /\ UNCHANGED <<proc, variant, store, bat, runs>>

\* const scrapedText = await scrapeArticle(url);
ArticleScrape ==
    /\ req.pc = "scrape"
    /\ \E fetch \in PageFetches :
          req' = [req EXCEPT !.pc = "clean", !.scraped = ScrapeArticle(fetch),
                             !.extractCalls = @ + 1]
    /\ UNCHANGED <<proc, variant, rt, store, nreq, bat, runs>>

\* cleanTitleAndDescription: await retryOpenAIRequest(requestFn, 3, 1500)
ArticleCleanCall ==
    /\ req.pc = "clean"
    /\ rt' = RetryStart(DefaultRetries, CallerDelay)
    /\ req' = [req EXCEPT !.pc = "cleaning"]
    /\ UNCHANGED <<proc, variant, store, nreq, bat, runs>>

\* cleanTitleAndDescription: what it returns once the helper has finished.
ArticleCleanReturn ==
    /\ req.pc = "cleaning"
    /\ RetryFinished(rt)
    /\ \E content \in (IF rt.pc = "returned" THEN Contents ELSE {NoContent}) :
          req' = [req EXCEPT !.pc = "save", !.content = content,
                             !.rewriteCalls = rt.attempts,
                             !.cleaned = CleanResult(rt, content, req.title,
                                             req.description, req.scraped)]
    /\ UNCHANGED <<proc, variant, rt, store, nreq, bat, runs>>

\* await db.collection("articles").doc(docId).set(articleDoc); res.json(...)
\* cleaned.title throws on null; set() throws on an undefined field or on a
\* store error; every throw is answered with 500.
ArticleSave ==
    /\ req.pc = "save"
    /\ IF req.cleaned.kind = "null" \/ ~ValidData(ArticleDoc(req))
       THEN /\ req' = [req EXCEPT !.pc = "responded", !.status = 500]
            /\ UNCHANGED store
       ELSE \E ok \in BOOLEAN :
              IF ok
              THEN /\ store' = DocSet(store, Base64(req.url), ArticleDoc(req))
                   /\ req' = [req EXCEPT !.pc = "responded", !.status = 200,
                                         !.writes = @ + 1]
              ELSE /\ req' = [req EXCEPT !.pc = "responded", !.status = 500]
                   /\ UNCHANGED store
    /\ UNCHANGED <<proc, variant, rt, nreq, bat, runs>>

(***************************************************************************)
(* POST /process-articles: part_002 ("batch2": batchSize from the request, *)
(* cooldown between batches) and part_005 ("batch5": deduplicate, filter   *)
(* the stored urls, batches of 10).                                        *)
(***************************************************************************)
Min(a, b) == IF a < b THEN a ELSE b

Range(s) == {s[k] : k \in 1..Len(s)}

UrlLists == UNION {[1..n -> Urls] : n \in 0..MaxUrls}

\* Mutant of deduplicateUrls: the list comes back as it is.
deduplicateKeepsAll(urls) == urls

\* [...new Set(urls)]: the first occurrence of every url, in order.
RECURSIVE deduplicateUrls(_)
deduplicateUrls(urls) ==
    IF urls = <<>> THEN <<>>
    ELSE LET front == deduplicateUrls(SubSeq(urls, 1, Len(urls) - 1))
             last == urls[Len(urls)]
         IN  IF last \in Range(front) THEN front ELSE Append(front, last)

\* filterUnprocessedUrls: keeps the urls whose document does not exist.
RECURSIVE filterUnprocessedUrls(_, _)
filterUnprocessedUrls(db, urls) ==
    IF urls = <<>> THEN <<>>
    ELSE LET rest == filterUnprocessedUrls(db, Tail(urls))
         IN  IF DocGet(db, Base64(Head(urls))) = NoDoc
             THEN <<Head(urls)>> \o rest ELSE rest

\* for (let i = 0; i < array.length; i += batchSize)
\*     batches.push(array.slice(i, i + batchSize));
\* called from index i; the loop ends only when batchSize > 0.
RECURSIVE createBatchesFrom(_, _, _)
createBatchesFrom(array, batchSize, i) ==
    IF i >= Len(array) THEN <<>>
    ELSE <<SubSeq(array, i + 1, Min(i + batchSize, Len(array)))>>
             \o createBatchesFrom(array, batchSize, i + batchSize)

\* Mutant of createBatches: the list comes back as one batch.
createBatchesUnsplit(array, batchSize) == <<array>>

createBatches(array, batchSize) == createBatchesFrom(array, batchSize, 0)

\* createBatches on its own: a list and a batch size >= 1 are given (the
\* loop does not end for a batch size <= 0), and the function is applied.
SplitLists == UNION {[1..n -> Urls] : n \in 0..MaxListLen}

\* scrapeDescriptionFromUrl(url): the description, "" on an error or when
\* the page has none.
scrapeDescriptionFromUrl(fetch) == IF fetch = "neterr" THEN "" ELSE Or(fetch, "")

BatchFetches == {"neterr", "", "P1"}

\* What JSON.parse gives for the content of a batch rewrite of n articles:
\* an array of n - 1, n or n + 1 objects (with or without the two keys), an
\* object that is no array, or null; "text" is content that is not JSON.
GoodItem == [title |-> "T1", description |-> "D1", url |-> Undef]
BareItem == [title |-> Undef, description |-> Undef, url |-> Undef]

BatchContents(n) ==
    { [kind |-> "array", items |-> [k \in 1..m |-> it]] :
          m \in {k \in {n - 1, n, n + 1} : k >= 0}, it \in {GoodItem, BareItem} }
    \cup { [kind |-> k, items |-> <<>>] : k \in {"text", "object", "null"} }

BatIdle ==
    [pc |-> "idle", urls |-> <<>>, batchSize |-> 0, batches |-> <<>>,
     bi |-> 0, articles |-> <<>>, content |-> "none", cleaned |-> <<>>,
     si |-> 0, status |-> 0, processed |-> 0,
     completeAtStart |-> {}, scraped |-> <<>>, sent |-> <<>>,
     rewritten |-> <<>>, written |-> <<>>, cooldowns |-> 0, failedAt |-> 0]

\* The urls with a complete record in the store.
CompleteUrls(db) == {u \in Urls : \E d \in DocsOfUrl(db, u) : IsComplete(d)}

\* Mutant of the handler: the test of the urls is missing.
ReceivedUnchecked(db, isArray, urls, batchSize) ==
    LET b0 == [BatIdle EXCEPT !.urls = urls, !.batchSize = batchSize,
                              !.completeAtStart = CompleteUrls(db)]
    IN  IF urls = <<>> \/ batchSize <= 0
        THEN [b0 EXCEPT !.pc = "responded", !.status = 200]
        ELSE [b0 EXCEPT !.pc = "scrape", !.bi = 1,
                        !.batches = createBatches(urls, batchSize)]

\* The handler up to the first batch: validation, (batch5) deduplication and
\* filter, and the split into batches.  A batchSize <= 0 never leaves the
\* splitting loop of batch2.
Received(db, isArray, urls, batchSize) ==
    LET b0 == [BatIdle EXCEPT !.urls = urls, !.batchSize = batchSize,
                              !.completeAtStart = CompleteUrls(db)]
        selected == IF variant = "batch2" THEN urls
                    ELSE filterUnprocessedUrls(db, deduplicateUrls(urls))
    IN  IF ~isArray \/ Len(urls) = 0
        THEN [b0 EXCEPT !.pc = "responded", !.status = 400]
        ELSE IF selected = <<>>
        THEN [b0 EXCEPT !.pc = "responded", !.status = 200]
        ELSE IF batchSize <= 0
        THEN [b0 EXCEPT !.pc = "splitting"]
        ELSE [b0 EXCEPT !.pc = "scrape", !.bi = 1,
                        !.batches = createBatches(selected, batchSize)]

BatchReceive ==
    /\ variant \in {"batch2", "batch5"}
    /\ proc.pc = "listening"
    /\ bat.pc \in {"idle", "responded"}
    /\ nreq < MaxRequests
    /\ nreq' = nreq + 1
    /\ \E isArray \in BOOLEAN :
       \E urls \in (IF isArray THEN UrlLists ELSE {<<>>}) :
       \E batchSize \in (IF variant = "batch2" THEN BatchSizes ELSE {FixedBatchSize}) :
          bat' = Received(store, isArray, urls, batchSize)
    /\ rt' = RetryIdle
    /\ UNCHANGED <<proc, variant, store, req, runs>>

\* A request of part_005 with one url more than a batch takes, all distinct
\* and none of them stored: the only request of its server.
ManyUrls == <<"m1", "m2", "m3", "m4", "m5", "m6", "m7", "m8", "m9", "m10", "m11">>

BatchReceiveMany ==
    /\ variant = "batch5"
    /\ proc.pc = "listening"
    /\ bat.pc = "idle"
    /\ nreq = 0
    /\ nreq' = MaxRequests
    /\ bat' = Received(store, TRUE, ManyUrls, FixedBatchSize)
    /\ rt' = RetryIdle
    /\ UNCHANGED <<proc, variant, store, req, runs>>

\* What the pages of a batch answer: each page on its own in a short batch,
\* all pages alike in a long one.
FetchChoices(batch) ==
    IF Len(batch) <= MaxUrls THEN [1..Len(batch) -> BatchFetches]
    ELSE {[k \in 1..Len(batch) |-> f] : f \in BatchFetches}

\* for (const url of batch) articlesWithContent.push({title: "", description, url})
BatchScrape ==
    /\ bat.pc = "scrape"
    /\ LET batch == bat.batches[bat.bi]
       IN  \E fetch \in FetchChoices(batch) :
             bat' = [bat EXCEPT
                       !.pc = "clean",
                       !.articles = [k \in 1..Len(batch) |->
                           [title |-> "",
                            description |-> scrapeDescriptionFromUrl(fetch[k]),
                            url |-> batch[k]]],
                       !.scraped = @ \o batch]
    /\ UNCHANGED <<proc, variant, rt, store, artVars, runs>>

\* cleanArticlesInBatch: await retryOpenAIRequest(requestFn, 3, 1500)
BatchCleanCall ==
    /\ bat.pc = "clean"
    /\ rt' = RetryStart(DefaultRetries, CallerDelay)
    /\ bat' = [bat EXCEPT !.pc = "cleaning",
                          !.sent = @ \o bat.batches[bat.bi],
                          !.rewritten = Append(@, bat.bi)]
    /\ UNCHANGED <<proc, variant, store, artVars, runs>>

\* Mutant of the fallback: content that is not JSON gives no articles.
ParsedOrNothing(c, articles) ==
    CASE c.kind = "array" -> c.items
      [] OTHER -> <<>>

\* try { return JSON.parse(cleaned); } catch { return articles; }, as the
\* save loop sees it: the elements of an array, the articles given to the
\* call when the content is not JSON, nothing to loop over (length is
\* undefined) for an object that is no array.
ParsedOrFallback(c, articles) ==
    CASE c.kind = "text" -> articles
      [] c.kind = "array" -> c.items
      [] OTHER -> <<>>

\* cleanArticlesInBatch after the helper: a throw of the helper reaches the
\* catch of the handler (500); content that is not JSON gives the articles
\* back; cleanedArticles.length of null throws, of an object is undefined.
BatchCleanReturn ==
    /\ bat.pc = "cleaning"
    /\ RetryFinished(rt)
    /\ IF rt.pc = "thrown"
       THEN bat' = [bat EXCEPT !.pc = "responded", !.status = 500,
                               !.failedAt = bat.bi]
       ELSE \E c \in (IF rt.pc = "returned"
                      THEN BatchContents(Len(bat.articles))
                      ELSE {[kind |-> "text", items |-> <<>>]}) :
              bat' = IF c.kind = "null"
                     THEN [bat EXCEPT !.pc = "responded", !.status = 500,
                                      !.content = c.kind, !.failedAt = bat.bi]
                     ELSE [bat EXCEPT
                             !.pc = "save", !.si = 1, !.content = c.kind,
                             !.cleaned = ParsedOrFallback(c, bat.articles)]
    /\ UNCHANGED <<proc, variant, rt, store, artVars, runs>>

\* One turn of the save loop: batch[i] is undefined past the end of the
\* batch and Buffer.from(undefined) throws; set() may fail.
BatchSaveItem ==
    /\ bat.pc = "save"
    /\ bat.si <= Len(bat.cleaned)
    /\ LET batch == bat.batches[bat.bi]
           originalUrl == IF bat.si <= Len(batch) THEN batch[bat.si] ELSE Undef
           cleaned == bat.cleaned[bat.si]
           articleDoc == [url |-> originalUrl,
                          title |-> Or(cleaned.title, "Untitled News"),
                          description |-> Or(cleaned.description, "")]
       IN  IF originalUrl = Undef
           THEN /\ bat' = [bat EXCEPT !.pc = "responded", !.status = 500,
                                      !.failedAt = bat.bi]
                /\ UNCHANGED store
           ELSE \E ok \in BOOLEAN :
                  IF ok
                  THEN /\ store' = DocSet(store, Base64(originalUrl), articleDoc)
                       /\ bat' = [bat EXCEPT !.si = @ + 1, !.processed = @ + 1,
                                             !.written = Append(@, originalUrl)]
                  ELSE /\ bat' = [bat EXCEPT !.pc = "responded", !.status = 500,
                                             !.failedAt = bat.bi]
                       /\ UNCHANGED store
    /\ UNCHANGED <<proc, variant, rt, artVars, runs>>

\* After the save loop: the next batch (batch2: after the cooldown), or the
\* success response after the last one.
BatchFinish ==
    /\ bat.pc = "save"
    /\ bat.si > Len(bat.cleaned)
    /\ bat' = IF bat.bi < Len(bat.batches)
              THEN IF variant = "batch2"
                   THEN [bat EXCEPT !.pc = "cooldown"]
                   ELSE [bat EXCEPT !.pc = "scrape", !.bi = @ + 1]
              ELSE [bat EXCEPT !.pc = "responded", !.status = 200]
    /\ UNCHANGED <<proc, variant, rt, store, artVars, runs>>

\* await new Promise((res) => setTimeout(res, 3000));
BatchCooldown ==
    /\ bat.pc = "cooldown"
    /\ bat' = [bat EXCEPT !.pc = "scrape", !.bi = @ + 1, !.cooldowns = @ + 1]
    /\ UNCHANGED <<proc, variant, rt, store, artVars, runs>>

(***************************************************************************)
(* The feed pollers: the cron callback of server.js ("cron"), processFeed  *)
(* and runJob of part_001 ("feed"), processArticle and runJob of part_003  *)
(* ("job").  Two runs exist, one per trigger (a cron tick and the call at  *)
(* start-up, two requests of GET /run-job-now), and nothing in the code    *)
(* keeps the second from starting while the first is in progress.          *)
(***************************************************************************)
Runs == {"scheduled", "triggered"}

\* RSS_FEEDS, cut to its first two entries.
Feeds == <<"Health", "Technology">>

\* The entries of a feed: both articles appear in both feeds.
Link(fi, i) == IF (fi + i) % 2 = 0 THEN "u1" ELSE "u2"

FeedItems(fi) == [i \in 1..MaxItems |-> Link(fi, i)]

\* items.slice(0, 5) of runJob (part_003); the other pollers take them all.
EntriesOf(v, fi) ==
    IF v = "job" THEN SubSeq(FeedItems(fi), 1, Min(MaxItems, EntryCap))
    ELSE FeedItems(fi)

NoTextSentinel == "No article text found."

\* getDocIdFromUrl: crypto.createHash("sha256").update(url).digest("hex"),
\* taken to be free of collisions on the modelled urls.
getDocIdFromUrl(url) == [scheme |-> "sha256", of |-> url, n |-> 0]

\* collection.add(data): a document under a fresh generated id.
DocAdd(db, data) ==
    db \cup {[id |-> [scheme |-> "auto", of |-> "", n |-> Cardinality(db) + 1],
              data |-> data]}

\* doc(id).set(data, { merge: true }): the written fields replace the stored
\* ones, the other stored fields stay.
DocMerge(db, id, data) ==
    LET old == DocGet(db, id)
    IN  IF old = NoDoc THEN DocSet(db, id, data)
        ELSE DocSet(db, id,
                 [f \in (DOMAIN old.data) \cup (DOMAIN data) |->
                     IF f \in DOMAIN data THEN data[f] ELSE old.data[f]])

\* POST /scrape: 500 when the fetch fails, else the text of the page or the
\* sentinel when it has none.
ScrapeEndpoint(fetch) ==
    IF fetch = "neterr" THEN [status |-> 500, text |-> Undef]
    ELSE [status |-> 200, text |-> Or(fetch, NoTextSentinel)]

\* POST /clean (server.js 50-95, part_003 174-239): one call of the rewrite
\* service, no retry; 500 when the call fails, when the content is not JSON
\* or when it is JSON null.
CleanEndpoint(text, outcome, content) ==
    IF Falsy(text) THEN [status |-> 400, title |-> Undef, description |-> Undef]
    ELSE IF outcome # "ok" \/ JsonParseThrows(content) \/ content.kind = "null"
    THEN [status |-> 500, title |-> Undef, description |-> Undef]
    ELSE [status |-> 200, title |-> Or(content.title, "Untitled"),
          description |-> Or(content.description, "")]

\* What the rewrite service answers to POST /clean: text that is not JSON, an
\* object with or without a description, JSON null.
CleanContents ==
    {c \in Contents : c.kind \in {"text", "null"} \/ c.title = "T1"}

\* Mutant of the test of processArticle: the stored record is never looked at.
AlreadyProcessedIgnored(db, url) == FALSE

\* processArticle (part_003): the stored record is complete, skip the url.
AlreadyProcessed(db, url) ==
    LET docSnap == DocGet(db, getDocIdFromUrl(url))
    IN  docSnap # NoDoc /\ ~Falsy(docSnap.data.description)

\* articleExists (part_001) and the query of the cron callback (server.js).
articleExists(db, url) == DocsOfUrl(db, url) # {}

SkipsUrl(v, db, url) ==
    IF v = "job" THEN AlreadyProcessed(db, url) ELSE articleExists(db, url)

\* The record written for an entry by each poller.
EntryData(v, run, category) ==
    [url |-> run.url, category |-> category,
     title |-> Or(run.cleaned.title, "RSS title"),
     description |-> IF v = "feed" THEN Or(run.cleaned.description, Or("RSS snippet", ""))
                     ELSE run.cleaned.description]

RunIdle ==
    [pc |-> "idle", fi |-> 0, ii |-> 0, url |-> Undef, text |-> Undef,
     cleaned |-> [status |-> 0, title |-> Undef, description |-> Undef],
     content |-> "none", outcome |-> "none", startComplete |-> FALSE,
     ex |-> 0, rw |-> 0, wr |-> 0,
     fetched |-> 0, failed |-> 0, expect |-> 0, visited |-> 0, dropped |-> 0,
     ack |-> <<>>, delays |-> 0]

\* The locals of an entry go out of scope when its turn of the loop ends.
LeaveEntry(run) ==
    [run EXCEPT !.url = Undef, !.text = Undef, !.cleaned = RunIdle.cleaned,
                !.content = "none", !.outcome = "none", !.startComplete = FALSE,
                !.ex = 0, !.rw = 0, !.wr = 0]

\* The end of the run, or the fetch of the next feed.
AfterFeed(run) ==
    IF run.fi < Len(Feeds)
    THEN [LeaveEntry(run) EXCEPT !.pc = "fetch", !.fi = @ + 1, !.ii = 0]
    ELSE [LeaveEntry(run) EXCEPT !.pc = "done"]

\* catch (err) { console.error(...) } around one feed, inside the loop over
\* the feeds: the loop goes on with the next feed.
FeedCatch(run) == AfterFeed(run)

\* The end of an entry: the article is done, whatever its outcome.
EndEntry(run, outcome) == [run EXCEPT !.pc = "end", !.outcome = outcome]

\* catch around one entry (processArticle's try, the inner try of the cron
\* callback and of processFeed).
EntryCatch(run) == EndEntry(run, "failed")

\* Mutant of the trigger: the run is started and nothing is answered.
RunStartedUnanswered(v) == [RunIdle EXCEPT !.pc = "fetch", !.fi = 1]

\* The run as its trigger leaves it.  GET /run-job-now (part_003) answers
\* res.json({ success: true, ... }) and then calls runJob(), which runs up to
\* its first await (the request of the first feed is sent, not yet answered)
\* before the handler returns; the cron tick and the call at start-up answer
\* nobody.  "ack" is the sequence of the statuses answered to the trigger.
RunStarted(v) ==
    [RunIdle EXCEPT !.pc = "fetch", !.fi = 1,
                    !.ack = IF v = "job" THEN <<200>> ELSE <<>>]

\* A run starts: the cron tick, the call at start-up, GET /run-job-now.
PollStart(r) ==
    /\ variant \in {"cron", "feed", "job"}
    /\ proc.pc = "listening"
    /\ runs[r].pc = "idle"
    /\ runs' = [runs EXCEPT ![r] = RunStarted(variant)]
    /\ UNCHANGED <<proc, variant, rt, store, artVars, bat>>

\* parser.parseURL(feedUrl) / axios.get(feedUrl) and parseStringPromise.
PollFetch(r) ==
    /\ runs[r].pc = "fetch"
    /\ LET run == [runs[r] EXCEPT !.fetched = @ + 1]
           items == EntriesOf(variant, run.fi)
       IN  \E ok \in BOOLEAN :
             runs' = [runs EXCEPT ![r] =
                 IF ~ok THEN FeedCatch([run EXCEPT !.failed = @ + 1])
                 ELSE IF Len(items) = 0 THEN AfterFeed(run)
                 ELSE [run EXCEPT !.pc = "check", !.ii = 1,
                                  !.expect = @ + Len(items)]]
    /\ UNCHANGED <<proc, variant, rt, store, artVars, bat>>

\* The existence check of an entry.  In processFeed it stands outside the
\* try of the entry: its failure is caught around the feed and drops the
\* rest of the feed.
EntryCheck(r) ==
    /\ runs[r].pc = "check"
    /\ LET url == EntriesOf(variant, runs[r].fi)[runs[r].ii]
           run == [runs[r] EXCEPT
                     !.url = url, !.visited = @ + 1,
                     !.startComplete = url \in CompleteUrls(store)]
       IN  \E ok \in BOOLEAN :
             runs' = [runs EXCEPT ![r] =
                 IF ~ok
                 THEN IF variant = "feed"
                      THEN FeedCatch([run EXCEPT
                               !.outcome = "failed",
                               !.dropped = @ + Len(EntriesOf(variant, run.fi)) - run.ii])
                      ELSE EntryCatch(run)
                 ELSE IF SkipsUrl(variant, store, url) THEN EndEntry(run, "skip")
                 ELSE [run EXCEPT !.pc = "scrape"]]
    /\ UNCHANGED <<proc, variant, rt, store, artVars, bat>>

\* axios.post(.../scrape) and the test of the text (absent from processFeed).
EntryScrape(r) ==
    /\ runs[r].pc = "scrape"
    /\ \E fetch \in PageFetches :
         LET res == ScrapeEndpoint(fetch)
             run == [runs[r] EXCEPT !.ex = @ + 1, !.text = res.text]
         IN  runs' = [runs EXCEPT ![r] =
                 IF res.status # 200 THEN EntryCatch(run)
                 ELSE IF variant # "feed"
                         /\ (Falsy(res.text) \/ res.text = NoTextSentinel)
                 THEN EndEntry(run, "nocontent")
                 ELSE [run EXCEPT !.pc = "clean"]]
    /\ UNCHANGED <<proc, variant, rt, store, artVars, bat>>

\* axios.post(.../clean, { text }): throws unless the endpoint answers 200.
EntryClean(r) ==
    /\ runs[r].pc = "clean"
    /\ \E outcome \in RequestOutcomes :
       \E content \in (IF outcome = "ok" THEN CleanContents ELSE {NoContent}) :
         LET res == CleanEndpoint(runs[r].text, outcome, content)
             run == [runs[r] EXCEPT !.rw = @ + 1, !.cleaned = res,
                                    !.content = content.kind]
         IN  runs' = [runs EXCEPT ![r] =
                 IF res.status # 200 THEN EntryCatch(run)
                 ELSE [run EXCEPT !.pc = "save"]]
    /\ UNCHANGED <<proc, variant, rt, store, artVars, bat>>

\* The write: docRef.set(..., { merge: true }) in processArticle, add(...)
\* in the two other pollers.
EntrySave(r) ==
    /\ runs[r].pc = "save"
    /\ LET run == runs[r]
           data == EntryData(variant, run, Feeds[run.fi])
       IN  \E ok \in BOOLEAN :
             IF ok
             THEN /\ store' = IF variant = "job"
                              THEN DocMerge(store, getDocIdFromUrl(run.url), data)
                              ELSE DocAdd(store, data)
                  /\ runs' = [runs EXCEPT ![r] =
                                EndEntry([run EXCEPT !.wr = @ + 1], "persisted")]
             ELSE /\ runs' = [runs EXCEPT ![r] = EntryCatch(run)]
                  /\ UNCHANGED store
    /\ UNCHANGED <<proc, variant, rt, artVars, bat>>

\* await new Promise(res => setTimeout(res, 5000)) after each article of
\* runJob (part_003); the loops of the two other pollers wait nothing.
InterArticleDelays(v) == IF v = "job" THEN 1 ELSE 0

\* The next entry of the feed (in runJob of part_003 after the 5 s delay),
\* or the next feed after the last entry.
EntryNext(r) ==
    /\ runs[r].pc = "end"
    /\ LET run == [runs[r] EXCEPT !.delays = @ + InterArticleDelays(variant)]
       IN  runs' = [runs EXCEPT ![r] =
                     IF run.ii < Len(EntriesOf(variant, run.fi))
                     THEN [LeaveEntry(run) EXCEPT !.pc = "check", !.ii = @ + 1]
                     ELSE AfterFeed(run)]
    /\ UNCHANGED <<proc, variant, rt, store, artVars, bat>>

(***************************************************************************)
(* The helper as a process: one action per step of the loop.               *)
(***************************************************************************)
RetryLoopTest ==
    /\ rt.pc = "test"
    /\ rt' = RetryTest(rt)
    /\ UNCHANGED <<proc, variant, store, artVars, bat, runs>>

RetryCall ==
    /\ rt.pc = "call"
    /\ \E resp \in RequestOutcomes : rt' = RetryAttempt(rt, resp)
    /\ UNCHANGED <<proc, variant, store, artVars, bat, runs>>

RetryWait ==
    /\ rt.pc = "wait"
    /\ rt' = RetryBackoff(rt)
    /\ UNCHANGED <<proc, variant, store, artVars, bat, runs>>

InitRetry ==
    /\ variant = "retry"
    /\ \E retries \in -1..MaxRetries, delay \in {DefaultDelay, CallerDelay} :
           rt = RetryStart(retries, delay)
    /\ store = {}
    /\ req = ReqIdle
    /\ nreq = 0
    /\ bat = BatIdle
    /\ runs = [r \in Runs |-> RunIdle]
    /\ proc = Listening

NextRetry == RetryLoopTest \/ RetryCall \/ RetryWait

SpecRetry == InitRetry /\ [][NextRetry]_vars

InitArticle ==
    /\ variant = "article"
    /\ rt = RetryIdle
    /\ store = {}
    /\ req = ReqIdle
    /\ nreq = 0
    /\ bat = BatIdle
    /\ runs = [r \in Runs |-> RunIdle]
    /\ proc = Listening

NextProcessArticle ==
    \/ ArticleReceive \/ ArticleScrape \/ ArticleCleanCall
    \/ ArticleCleanReturn \/ ArticleSave
    \/ NextRetry

SpecArticle == InitArticle /\ [][NextProcessArticle]_vars

InitBatch ==
    /\ variant \in {"batch2", "batch5"}
    /\ rt = RetryIdle
    /\ store = {}
    /\ req = ReqIdle
    /\ nreq = 0
    /\ bat = BatIdle
    /\ runs = [r \in Runs |-> RunIdle]
    /\ proc = Listening

NextBatch ==
    \/ BatchReceive \/ BatchScrape \/ BatchCleanCall \/ BatchCleanReturn
    \/ BatchSaveItem \/ BatchFinish \/ BatchCooldown
    \/ NextRetry

SpecBatch == InitBatch /\ [][NextBatch]_vars

InitPoll ==
    /\ variant \in {"cron", "feed", "job"}
    /\ rt = RetryIdle
    /\ store = {}
    /\ req = ReqIdle
    /\ nreq = 0
    /\ bat = BatIdle
    /\ runs = [r \in Runs |-> RunIdle]
    /\ proc = Listening

NextPoll ==
    \E r \in Runs :
        \/ PollStart(r) \/ PollFetch(r) \/ EntryCheck(r) \/ EntryScrape(r)
        \/ EntryClean(r) \/ EntrySave(r) \/ EntryNext(r)

SpecPoll == InitPoll /\ [][NextPoll]_vars

\* createBatches applied to a list and a batch size.
SplitApply ==
    /\ variant = "split"
    /\ bat.pc = "idle"
    /\ bat' = [bat EXCEPT !.pc = "split",
                          !.batches = createBatches(bat.urls, bat.batchSize)]
    /\ UNCHANGED <<proc, variant, rt, store, artVars, runs>>

InitSplit ==
    /\ variant = "split"
    /\ rt = RetryIdle
    /\ store = {}
    /\ req = ReqIdle
    /\ nreq = 0
    /\ \E array \in SplitLists, batchSize \in 1..MaxSplitSize :
          bat = [BatIdle EXCEPT !.urls = array, !.batchSize = batchSize]
    /\ runs = [r \in Runs |-> RunIdle]
    /\ proc = Listening

SpecSplit == InitSplit /\ [][SplitApply]_vars

\* The server of part_003: runJob started by GET /run-job-now.
InitJob ==
    /\ variant = "job"
    /\ rt = RetryIdle
    /\ store = {}
    /\ req = ReqIdle
    /\ nreq = 0
    /\ bat = BatIdle
    /\ runs = [r \in Runs |-> RunIdle]
    /\ proc = Listening

SpecJob == InitJob /\ [][NextPoll]_vars

\* POST /process-articles of part_002 over a collection that already holds
\* a record of u1 written by POST /process-article of server.js under the
\* same key, base64 of the url: the servers share the "articles" collection.
StoredByProcessArticle ==
    DocSet({}, Base64("u1"),
           ArticleDoc([ReqIdle EXCEPT !.url = "u1", !.scraped = "S1",
                          !.cleaned = [kind |-> "object", title |-> "T1",
                                       description |-> "D1"]]))

InitShared ==
    /\ variant = "batch2"
    /\ rt = RetryIdle
    /\ store = StoredByProcessArticle
    /\ req = ReqIdle
    /\ nreq = 0
    /\ bat = BatIdle
    /\ runs = [r \in Runs |-> RunIdle]
    /\ proc = Listening

SpecShared == InitShared /\ [][NextBatch]_vars

\* POST /process-articles of part_005 with a request of more than one batch.
InitMany ==
    /\ variant = "batch5"
    /\ rt = RetryIdle
    /\ store = {}
    /\ req = ReqIdle
    /\ nreq = 0
    /\ bat = BatIdle
    /\ runs = [r \in Runs |-> RunIdle]
    /\ proc = Listening

NextMany ==
    \/ BatchReceiveMany \/ BatchScrape \/ BatchCleanCall \/ BatchCleanReturn
    \/ BatchSaveItem \/ BatchFinish
    \/ NextRetry

SpecMany == InitMany /\ [][NextMany]_vars

\* The servers that take their work from a request: POST /process-article
\* of server.js and POST /process-articles of part_005 (part_002 validates
\* its request with the same test).
InitInput ==
    /\ variant \in {"article", "batch5"}
    /\ rt = RetryIdle
    /\ store = {}
    /\ req = ReqIdle
    /\ nreq = 0
    /\ bat = BatIdle
    /\ runs = [r \in Runs |-> RunIdle]
    /\ proc = Listening

NextInput ==
    \/ ArticleReceive \/ ArticleScrape \/ ArticleCleanCall
    \/ ArticleCleanReturn \/ ArticleSave
    \/ BatchReceive \/ BatchScrape \/ BatchCleanCall \/ BatchCleanReturn
    \/ BatchSaveItem \/ BatchFinish
    \/ NextRetry

SpecInput == InitInput /\ [][NextInput]_vars

\* node server.js: the top-level statements run, then app.listen.
Startup ==
    /\ proc.pc = "loading"
    /\ proc' = [proc EXCEPT !.pc = StartupEnd(variant, proc)]
    /\ UNCHANGED <<variant, rt, store, artVars, bat, runs>>

\* The process from its start, in any environment: the third program of
\* server.js and the second of part_003.
InitStartup ==
    /\ variant \in {"article", "job"}
    /\ rt = RetryIdle
    /\ store = {}
    /\ req = ReqIdle
    /\ nreq = 0
    /\ bat = BatIdle
    /\ runs = [r \in Runs |-> RunIdle]
    /\ \E fk \in BOOLEAN, ok \in BOOLEAN :
          proc = [pc |-> "loading", firebaseKey |-> fk, openaiKey |-> ok]

NextStartup ==
    \/ Startup
    \/ ArticleReceive \/ ArticleScrape \/ ArticleCleanCall
    \/ ArticleCleanReturn \/ ArticleSave
    \/ NextRetry
    \/ NextPoll

SpecStartup == InitStartup /\ [][NextStartup]_vars

\* The two programs that look a url up under its key before they work on it:
\* runJob of part_003 and POST /process-articles of part_005.
InitDedup ==
    /\ variant \in {"job", "batch5"}
    /\ rt = RetryIdle
    /\ store = {}
    /\ req = ReqIdle
    /\ nreq = 0
    /\ bat = BatIdle
    /\ runs = [r \in Runs |-> RunIdle]
    /\ proc = Listening

NextDedup ==
    \/ NextPoll
    \/ BatchReceive \/ BatchScrape \/ BatchCleanCall \/ BatchCleanReturn
    \/ BatchSaveItem \/ BatchFinish
    \/ NextRetry

SpecDedup == InitDedup /\ [][NextDedup]_vars

(***************************************************************************)
(* Claims about the retry helper.                                          *)
(***************************************************************************)
AllRateLimited(st) == \A k \in 1..Len(st.resps) : st.resps[k] = "e429"

NonDecreasing(s) == \A k \in 1..(Len(s) - 1) : s[k] <= s[k + 1]

\* C4: when every call answers 429, a call of the helper with retries >= 1
\* ends by throwing the 429 error after exactly "retries" attempts, and the
\* waits between the attempts never decrease.
C4_RetryBound ==
    (rt.pc # "idle" /\ rt.retries >= 1 /\ AllRateLimited(rt)) =>
        /\ NonDecreasing(rt.waits)
        /\ rt.attempts <= rt.retries
        /\ rt.pc # "fellthrough"
        /\ RetryFinished(rt) =>
              /\ rt.pc = "thrown"
              /\ rt.err = "e429"
              /\ rt.attempts = rt.retries

C4_Witness ==
    /\ rt.pc = "thrown"
    /\ rt.retries = DefaultRetries
    /\ AllRateLimited(rt)
    /\ rt.attempts = DefaultRetries
    /\ Len(rt.waits) = DefaultRetries - 1

\* C10: an attempt that fails with anything but 429 is the last attempt: the
\* helper throws that very error at once, with no wait after it.
C10_NoRetryOnOtherError ==
    \A k \in 1..Len(rt.resps) :
        rt.resps[k] \in {"e500", "enet"} =>
            /\ k = Len(rt.resps)
            /\ rt.pc = "thrown"
            /\ rt.err = rt.resps[k]
            /\ rt.attempts = k
            /\ Len(rt.waits) = k - 1

C10_Witness ==
    /\ rt.pc = "thrown"
    /\ rt.retries = DefaultRetries
    /\ rt.resps = <<"e429", "enet">>
    /\ Len(rt.waits) = 1

(***************************************************************************)
(* Claims about POST /process-article.                                     *)
(***************************************************************************)
\* C1: a request answered 200 for a url that had a record leaves exactly one
\* record under the key of the url, and when that record was complete the
\* request changed none of its fields.
C1_SecondRunKeepsRecord ==
    (req.pc = "responded" /\ req.status = 200 /\ req.before # NoDoc) =>
        /\ Cardinality(DocsAt(store, Base64(req.url))) = 1
        /\ IsComplete(req.before) => DocGet(store, Base64(req.url)) = req.before

\* C8: once the scrape of a request has given no usable text, the rewrite
\* service is never called for the request and a record written for it has
\* an empty description.
C8_NoContentEndsArticle ==
    (req.pc \in {"clean", "cleaning", "save", "responded"}
        /\ req.extractCalls > 0 /\ Falsy(req.scraped)) =>
        /\ req.pc # "cleaning"
        /\ req.rewriteCalls = 0
        /\ req.writes > 0 =>
              DocGet(store, Base64(req.url)).data.description = ""

(***************************************************************************)
(* Claims about POST /process-articles.                                    *)
(***************************************************************************)
\* C5: when the handler has answered and a batch had failed, every batch
\* after the failed one went to the rewrite service all the same.
C5_LaterBatchesProcessed ==
    (bat.pc = "responded" /\ bat.failedAt > 0) =>
        \A b \in (bat.failedAt + 1)..Len(bat.batches) : b \in Range(bat.rewritten)

(***************************************************************************)
(* Claims about the feed pollers.                                          *)
(***************************************************************************)
\* C2: whatever the interleaving of the two runs, the store never holds two
\* records of one url.
C2_OneRecordPerUrl ==
    \A u \in Urls : Cardinality(DocsOfUrl(store, u)) <= 1

\* C3: an entry (part_003) or a request (part_005) that found a complete
\* record of a url at its start makes no call of the scraper, no call of
\* the rewrite service and no write for that url.
C3_CompleteIsSkipped ==
    /\ \A r \in Runs :
          runs[r].startComplete =>
              runs[r].ex = 0 /\ runs[r].rw = 0 /\ runs[r].wr = 0
    /\ variant = "batch5" =>
          \A u \in bat.completeAtStart :
              u \notin Range(bat.scraped) \cup Range(bat.sent) \cup Range(bat.written)

C3_Witness ==
    \E r \in Runs :
        /\ runs[r].pc = "end"
        /\ runs[r].startComplete
        /\ runs[r].outcome = "skip"
        /\ runs[r].url \in CompleteUrls(store)

\* C6: when the rewrite service has answered an entry with text that is not
\* JSON, the rewrite of the entry still gives a title that is not empty.
C6_FallbackOnBadJson ==
    \A r \in Runs :
        runs[r].content = "text" =>
            runs[r].cleaned.status = 200 /\ ~Falsy(runs[r].cleaned.title)

\* C7: a run in which the fetch of a feed failed ends after it has fetched
\* every feed and visited every entry of the feeds it could fetch.
C7_FeedFailureIsolated ==
    \A r \in Runs :
        (runs[r].pc = "done" /\ runs[r].failed > 0) =>
            /\ runs[r].fetched = Len(Feeds)
            /\ runs[r].visited = runs[r].expect

\* C9: a run ends only after it has visited every entry of every feed it
\* fetched, whatever failed on the way.
C9_EntryFailureIsolated ==
    \A r \in Runs :
        runs[r].pc = "done" => runs[r].visited = runs[r].expect

\* C11: when the helper has thrown after nothing but 429 answers, the caller
\* of the rewrite holds a failure and no {title, description} value.
C11_ExhaustionPropagates ==
    (req.pc = "save" /\ rt.pc = "thrown" /\ AllRateLimited(rt)) =>
        req.cleaned.kind = "none"

\* C12: a request that has written a record had a non-empty scrape and a
\* rewrite call that returned; a request whose rewrite call threw has written
\* nothing.
C12_WriteOnlyAfterSuccess ==
    (req.pc = "responded" /\ req.writes > 0) =>
        ~Falsy(req.scraped) /\ rt.pc = "returned"

(***************************************************************************)
(* Claims about the triggers of the runs.                                  *)
(***************************************************************************)
\* C13: a run started by GET /run-job-now has had its one answer, the
\* success acknowledgement, from its start on (so before any feed is
\* fetched), and keeps exactly that answer whatever the run does or fails to
\* do; a trigger that has not been requested has answered nothing.
C13_AckBeforeRun ==
    \A r \in Runs :
        IF runs[r].pc = "idle" THEN runs[r].ack = <<>> /\ runs[r].fetched = 0
        ELSE runs[r].ack = <<200>>

C13_Witness ==
    \E r \in Runs :
        /\ runs[r].pc = "done"
        /\ runs[r].failed = Len(Feeds)
        /\ runs[r].ack = <<200>>

\* C14: at most one run is in progress at any time.
C14_NoOverlap ==
    Cardinality({r \in Runs : runs[r].pc \notin {"idle", "done"}}) <= 1

\* C15: an entry whose existence check succeeded is skipped exactly when the
\* store held a complete record of its url; with no record or an incomplete
\* one the scraper is called for it.
C15_ThreeCases ==
    \A r \in Runs :
        (runs[r].pc = "end" /\ runs[r].outcome # "failed") =>
            /\ (runs[r].outcome = "skip") <=> runs[r].startComplete
            /\ ~runs[r].startComplete => runs[r].ex = 1

(***************************************************************************)
(* Claims about the writes to the store.                                   *)
(***************************************************************************)
\* C16: no step takes a field away from a stored record: a write keeps every
\* field of the record that it does not write itself.
C16_WritesMerge ==
    [][\A d \in store : \A e \in store' :
          e.id = d.id => DOMAIN d.data \subseteq DOMAIN e.data]_vars

\* C17: a complete record stays in the store as it is, whatever step of
\* whatever run comes next.
C17_CompleteIsFinal ==
    [][\A d \in store : IsComplete(d) => d \in store']_vars

(***************************************************************************)
(* Claims about the batches.                                               *)
(***************************************************************************)
RECURSIVE Flatten(_)
Flatten(ss) == IF ss = <<>> THEN <<>> ELSE Head(ss) \o Flatten(Tail(ss))

\* C18: the batches of a list, one after the other, are the list; no batch
\* is empty or longer than the batch size, and every batch but the last has
\* exactly the batch size.
C18_SplitIsPartition ==
    (variant = "split" /\ bat.pc = "split") =>
        /\ Flatten(bat.batches) = bat.urls
        /\ \A k \in 1..Len(bat.batches) :
              /\ Len(bat.batches[k]) >= 1
              /\ Len(bat.batches[k]) <= bat.batchSize
              /\ k < Len(bat.batches) => Len(bat.batches[k]) = bat.batchSize

C18_Witness ==
    /\ variant = "split"
    /\ bat.pc = "split"
    /\ bat.urls = <<"u1", "u2", "u1">>
    /\ bat.batchSize = 2
    /\ bat.batches = << <<"u1", "u2">>, <<"u1">> >>

\* C19: while a request is in progress the batches up to the current one,
\* and no other, have been scraped and sent to the rewrite service, in index
\* order, and one cooldown has been waited before every batch but the first
\* (so none after the last).
C19_SequentialWithCooldown ==
    (bat.pc \in {"scrape", "clean", "cleaning", "save", "cooldown"}
        \/ (bat.pc = "responded" /\ bat.bi > 0)) =>
        /\ bat.cooldowns = bat.bi - 1
        /\ bat.rewritten \in {[k \in 1..(bat.bi - 1) |-> k], [k \in 1..bat.bi |-> k]}
        /\ bat.scraped \in {Flatten(SubSeq(bat.batches, 1, bat.bi - 1)),
                            Flatten(SubSeq(bat.batches, 1, bat.bi))}

(***************************************************************************)
(* Claims about the validation of the requests.                            *)
(***************************************************************************)
\* C20: a request without url (POST /process-article) or without a
\* non-empty array of urls (POST /process-articles) is answered 400, and the
\* step that answers it calls neither the scraper nor the rewrite service
\* and leaves the store as it was.
C20_RejectedWithoutEffect ==
    /\ [](/\ (req.pc = "responded" /\ (Falsy(req.url) \/ req.status = 400)) =>
                /\ Falsy(req.url) /\ req.status = 400
                /\ req.extractCalls = 0 /\ req.rewriteCalls = 0 /\ req.writes = 0
                /\ rt = RetryIdle
          /\ (bat.pc = "responded" /\ (bat.urls = <<>> \/ bat.status = 400)) =>
                /\ bat.urls = <<>> /\ bat.status = 400
                /\ bat.scraped = <<>> /\ bat.sent = <<>> /\ bat.written = <<>>
                /\ rt = RetryIdle)
    /\ [][(nreq' # nreq /\ (req'.status = 400 \/ bat'.status = 400)) =>
              store' = store]_vars

C20_Witness ==
    /\ nreq = MaxRequests
    /\ store # {}
    /\ \/ req.pc = "responded" /\ req.status = 400
       \/ bat.pc = "responded" /\ bat.status = 400

\* C21: every stored record is under a key computed from its url, by one of
\* the two key functions of the code.
C21_KeyFromUrl ==
    \A d \in store :
        d.id \in {Base64(d.data.url), getDocIdFromUrl(d.data.url)}

\* C22: an entry whose scrape has been requested and that has not come to
\* its rewrite did not end as a failure: the scrape gave back a text, empty
\* or not, and raised nothing.
C22_ScrapeFailsSoft ==
    \A r \in Runs :
        (runs[r].pc = "end" /\ runs[r].ex = 1 /\ runs[r].rw = 0) =>
            runs[r].outcome # "failed"

\* C23: a run visits at most EntryCap entries of a feed, in feed order, and
\* has waited one delay between any two entries it visited.
C23_CapAndDelay ==
    \A r \in Runs :
        /\ runs[r].ii <= EntryCap
        /\ runs[r].pc \in {"scrape", "clean", "save", "end"} =>
              runs[r].url = FeedItems(runs[r].fi)[runs[r].ii]
        /\ runs[r].visited >= 1 => runs[r].delays >= runs[r].visited - 1

\* C24: after a batch rewrite whose content is not JSON the save loop works
\* on the articles that were sent, one per url of the batch and in the
\* order of the batch, each with the description scraped for its url.
C24_BatchFallbackEchoes ==
    (bat.pc = "save" /\ bat.content = "text") =>
        /\ bat.cleaned = bat.articles
        /\ Len(bat.cleaned) = Len(bat.batches[bat.bi])
        /\ \A k \in 1..Len(bat.cleaned) :
              bat.cleaned[k].url = bat.batches[bat.bi][k]

C24_Witness ==
    /\ bat.pc = "save"
    /\ bat.content = "text"
    /\ Len(bat.articles) = 2
    /\ bat.si > Len(bat.cleaned)
    /\ bat.written = bat.batches[bat.bi]
    /\ \A k \in 1..Len(bat.articles) :
          DocGet(store, Base64(bat.articles[k].url)).data.description
              = bat.articles[k].description

(***************************************************************************)
(* Claims about the start of the process.                                  *)
(***************************************************************************)
\* C25: a process that listens for requests has found both the key of the
\* store and the key of the rewrite service in its environment.
C25_NoHalfConfiguredStart ==
    proc.pc = "listening" => proc.firebaseKey /\ proc.openaiKey

(***************************************************************************)
(* A page that never responds.  axios.get(url, { headers }) of POST        *)
(* /scrape carries no timeout, and neither does the axios.post of the run  *)
(* to /scrape: the await of the run never settles.  (The fetch of          *)
(* scrapeDescriptionFromUrl carries timeout: 10000; there a silent page is *)
(* the outcome "neterr" of BatchFetches.)                                  *)
(***************************************************************************)
EntryScrapeHangs(r) ==
    /\ runs[r].pc = "scrape"
    /\ runs' = [runs EXCEPT ![r] = [@ EXCEPT !.pc = "hung", !.ex = @ + 1]]
    /\ UNCHANGED <<proc, variant, rt, store, artVars, bat>>

\* The steps of a run once it is started: the event loop resumes every
\* await that has settled.
RunStep(r) ==
    \/ PollFetch(r) \/ EntryCheck(r) \/ EntryScrape(r)
    \/ EntryClean(r) \/ EntrySave(r) \/ EntryNext(r)

NextHang ==
    \E r \in Runs : PollStart(r) \/ RunStep(r) \/ EntryScrapeHangs(r)

\* runJob of part_003 over pages that may never respond.
SpecHang ==
    InitJob /\ [][NextHang]_vars /\ \A r \in Runs : WF_vars(RunStep(r))

\* C26: a run that has reached the fetch of an article, whose page may
\* never respond, eventually reaches the end of the run.
C26_RunReachesEnd ==
    \A r \in Runs : (runs[r].pc = "scrape") ~> (runs[r].pc = "done")

(***************************************************************************)
(* Claims about the waits of the retry helper.                             *)
(***************************************************************************)
\* C27: the k-th wait of a call lasts baseDelay * 2^(k-1); a wait only
\* follows a 429 answer to an attempt that is not the last one; and a call
\* whose maxRetries attempts were all answered 429 has waited exactly
\* maxRetries - 1 times.
C27_ExponentialWaits ==
    rt.pc # "idle" =>
        /\ \E baseDelay \in {DefaultDelay, CallerDelay} :
              /\ rt.delay = baseDelay * 2 ^ Len(rt.waits)
              /\ \A k \in 1..Len(rt.waits) : rt.waits[k] = baseDelay * 2 ^ (k - 1)
        /\ \A k \in 1..Len(rt.waits) :
              rt.resps[k] = "e429" /\ k < rt.retries
        /\ rt.pc = "wait" =>
              rt.resps[rt.attempts] = "e429" /\ rt.attempts < rt.retries
        /\ Len(rt.waits) = IF rt.pc \in {"test", "call", "fellthrough"}
                           THEN rt.attempts
                           ELSE rt.attempts - 1
        /\ (RetryFinished(rt) /\ AllRateLimited(rt) /\ rt.attempts >= 1
                /\ rt.attempts = rt.retries) =>
              Len(rt.waits) = rt.retries - 1

C27_Witness ==
    /\ rt.pc = "thrown"
    /\ rt.retries = DefaultRetries
    /\ rt.attempts = DefaultRetries
    /\ AllRateLimited(rt)
    /\ rt.waits = <<CallerDelay, 2 * CallerDelay>>

(***************************************************************************)
(* Claims about the description stored by POST /process-article.           *)
(***************************************************************************)
\* C28: the description of the record written by a request answered 200 is
\* the description returned by the rewrite service, and never the
\* description that came with the request.
C28_StoredIsRewritten ==
    (req.pc = "responded" /\ req.status = 200) =>
        LET doc == DocGet(store, Base64(req.url))
        IN  /\ doc.data.description = req.content.description
            /\ req.description # Undef => doc.data.description # req.description

(***************************************************************************)
(* Claims about the selection of the urls of POST /process-articles        *)
(* (part_005).                                                             *)
(***************************************************************************)
NoDuplicate(s) == \A i, j \in 1..Len(s) : i # j => s[i] # s[j]

IsPrefix(s, t) == Len(s) <= Len(t) /\ s = SubSeq(t, 1, Len(s))

\* C29: the urls that POST /process-articles of part_005 puts into batches
\* are the distinct urls of the request that have no record when the request
\* arrives; every one of them is scraped at most once and written at most
\* once, no other url is scraped, sent to the rewrite service or written;
\* and a request none of whose urls remains is answered 200 without any
\* scrape, rewrite call or write.
C29_SelectsNewUrlsOnce ==
    /\ [](variant = "batch5" =>
            LET selected == Flatten(bat.batches)
            IN  /\ NoDuplicate(selected)
                /\ IsPrefix(bat.scraped, selected)
                /\ IsPrefix(bat.sent, bat.scraped)
                /\ NoDuplicate(bat.written)
                /\ Range(bat.written) \subseteq Range(bat.sent)
                /\ (bat.pc = "responded" /\ bat.urls # <<>> /\ selected = <<>>) =>
                      /\ bat.status = 200
                      /\ bat.scraped = <<>> /\ bat.rewritten = <<>>
                      /\ bat.written = <<>> /\ rt = RetryIdle)
    /\ [][(variant = "batch5" /\ nreq' # nreq) =>
             /\ Range(Flatten(bat'.batches)) =
                   {u \in Range(bat'.urls) : DocGet(store, Base64(u)) = NoDoc}
             /\ store' = store]_vars

\* The second request names a stored url and a new one: only the new one is
\* scraped and written.
C29_Witness ==
    /\ variant = "batch5"
    /\ nreq = 2
    /\ bat.pc = "responded" /\ bat.status = 200
    /\ bat.urls = <<"u1", "u2">>
    /\ bat.scraped = <<"u2">> /\ bat.written = <<"u2">>
    /\ DocGet(store, Base64("u1")) # NoDoc

\* C30: when POST /process-articles answers 200, every url it put into a
\* batch has a record under its key whose url field is that url, whatever
\* the rewrite service answered.
C30_SuccessMeansAllStored ==
    (variant \in {"batch2", "batch5"} /\ bat.pc = "responded" /\ bat.status = 200) =>
        \A u \in Range(Flatten(bat.batches)) :
            /\ DocGet(store, Base64(u)) # NoDoc
            /\ DocGet(store, Base64(u)).data.url = u

(***************************************************************************)
(* Claims about the ways the retry helper completes.                       *)
(***************************************************************************)
\* C31: whatever the value of retries, a call of the helper that has
\* completed has either returned the result of a successful attempt or
\* thrown the error of its last attempt.
C31_ReturnsResultOrThrows ==
    (rt.pc # "idle" /\ RetryFinished(rt)) =>
        /\ rt.attempts >= 1
        /\ \/ rt.pc = "returned" /\ rt.resps[rt.attempts] = "ok"
           \/ rt.pc = "thrown" /\ rt.err = rt.resps[rt.attempts] /\ rt.err # "ok"

(***************************************************************************)
(* POST /process-articles under the scheduling of the event loop: a        *)
(* handler that can take a step eventually takes it.                       *)
(***************************************************************************)
SpecBatchFair == InitBatch /\ [][NextBatch]_vars /\ WF_vars(NextBatch)

\* C32: a request of POST /process-articles with a non-empty urls array is
\* eventually answered, whatever batchSize its body carries.
C32_RequestAnswered ==
    (bat.pc \notin {"idle", "responded"}) ~> (bat.pc = "responded")

(***************************************************************************)
(* Claims about the title stored by POST /process-article.                 *)
(***************************************************************************)
\* C33: every record that POST /process-article has written holds a title
\* that is a non-empty text, whatever the rewrite call returned.
C33_StoredTitleNonEmpty ==
    variant = "article" => \A doc \in store : ~Falsy(doc.data.title)

=============================================================================
